---- MODULE Spec2Model ----
(***************************************************************************)
(* A model of scripts/generate-temporal-data.py: the command runner, the   *)
(* commit log parsers, the blame stream parser, the resource history       *)
(* correlator, the asset materializer and the snapshot assembler.          *)
(*                                                                         *)
(* Text is a sequence of one-character strings.  The standard output of    *)
(* the external tool is a sequence of bytes; every byte but BadByte is an  *)
(* ASCII character, BadByte is a byte that is not valid UTF-8.             *)
(***************************************************************************)
EXTENDS Integers, Sequences, FiniteSets, TLC

VARIABLES
    pc,             \* position of the function under study
    exc,            \* the exception that left the function, "none" if none
    \* run_git_command
    outcome,        \* how the external invocation ends
    stdout,         \* the bytes the tool wrote to its standard output
    ret,            \* the value run_git_command returned
    \* commit log parsers and get_image_history
    fn,             \* which parser runs
    exists,         \* os.path.exists(full_path) (get_image_history)
    loglines,       \* output.split('\n')
    k,              \* number of lines of the for loop already consumed
    commits,        \* commits / history: the records appended so far
    shown,          \* per appended record, what `git show` found for it
    \* get_blame_history
    doc,            \* the document's current lines, as git sees them
    groups,         \* per line, whether git prints the metadata block
    hostTz,         \* the host's offset from UTC in seconds
    lines,          \* output.split('\n')
    i,              \* index into lines (0-based, as in the code)
    current_line,   \* the output line counter
    blame_info,     \* the records appended so far
    sha, original_line, author, email, date, content,
    \* generate_temporal_data
    project_paths,  \* find_projects(repo_path)
    faults,         \* per project, what goes wrong in its extraction
    projects_data,  \* the records appended so far
    snapshot,       \* the written output file, "unwritten" before json.dump
    \* copy_images_to_assets
    image_refs,     \* per project, the references found in its document
    todo,           \* (project index, reference) pairs not yet visited
    copied          \* the copies made: project, reference, destination

runVars    == <<outcome, stdout, ret>>
logVars    == <<fn, exists, loglines, k, commits, shown>>
blameVars  == <<doc, groups, hostTz, lines, i, current_line, blame_info,
                sha, original_line, author, email, date, content>>
genVars    == <<project_paths, faults, projects_data, snapshot>>
assetVars  == <<image_refs, todo, copied>>
vars       == <<pc, exc, runVars, logVars, blameVars, genVars, assetVars>>

-----------------------------------------------------------------------------
(* Bounds of the model. *)

MaxOut == 3          \* bytes of standard output in the command runner runs
MaxDocLines == 2     \* lines of a blamed document
MaxStream == 4       \* lines of an arbitrary blame stream
MaxLogLines == 3     \* lines of a commit log stream
MaxProjects == 3     \* discovered projects
MaxAssetProjects == 2 \* projects whose images are copied
MaxRefs == 2         \* image references of one document

-----------------------------------------------------------------------------
(* Python's str operations, as the script uses them. *)

TAB == "\t"
LF  == "\n"
CR  == "\r"
SP  == " "
BadByte == "xFF"

IsSpace(c) == c \in {SP, TAB, LF, CR}

Drop(s, n) == SubSeq(s, n + 1, Len(s))

StartsWith(s, p) == Len(s) >= Len(p) /\ SubSeq(s, 1, Len(p)) = p

RECURSIVE LStripSet(_, _)
LStripSet(s, cs) ==
    IF s # <<>> /\ Head(s) \in cs THEN LStripSet(Tail(s), cs) ELSE s

RECURSIVE RStripSet(_, _)
RStripSet(s, cs) ==
    IF s # <<>> /\ s[Len(s)] \in cs
    THEN RStripSet(SubSeq(s, 1, Len(s) - 1), cs) ELSE s

\* str.strip(chars)
StripSet(s, cs) == RStripSet(LStripSet(s, cs), cs)

\* str.strip()
Strip(s) == StripSet(s, {SP, TAB, LF, CR})

IndexOf(s, c) ==
    IF \E j \in 1..Len(s) : s[j] = c
    THEN CHOOSE j \in 1..Len(s) : s[j] = c /\ \A h \in 1..(j - 1) : s[h] # c
    ELSE 0

\* str.split(sep, maxsplit) for a one-character sep
RECURSIVE SplitMax(_, _, _)
SplitMax(s, sep, n) ==
    IF n = 0 \/ IndexOf(s, sep) = 0
    THEN <<s>>
    ELSE <<SubSeq(s, 1, IndexOf(s, sep) - 1)>>
         \o SplitMax(Drop(s, IndexOf(s, sep)), sep, n - 1)

\* str.split(sep)
Split(s, sep) == SplitMax(s, sep, Len(s))

\* str.split(): the maximal runs of non-whitespace characters
RECURSIVE SplitWS(_)
SplitWS(s) ==
    LET t == LStripSet(s, {SP, TAB, LF, CR})
        e == IF \E j \in 1..Len(t) : IsSpace(t[j])
             THEN (CHOOSE j \in 1..Len(t) :
                      IsSpace(t[j]) /\ \A h \in 1..(j - 1) : ~IsSpace(t[h])) - 1
             ELSE Len(t)
    IN  IF t = <<>> THEN <<>>
        ELSE <<SubSeq(t, 1, e)>> \o SplitWS(Drop(t, e))

RECURSIVE Join(_, _)
Join(ls, sep) ==
    IF ls = <<>> THEN <<>>
    ELSE IF Len(ls) = 1 THEN ls[1]
    ELSE ls[1] \o <<sep>> \o Join(Tail(ls), sep)

Digits == <<"0", "1", "2", "3", "4", "5", "6", "7", "8", "9">>

DigitVal(c) == (CHOOSE d \in 1..10 : Digits[d] = c) - 1

IsDigit(c) == \E d \in 1..10 : Digits[d] = c

\* int(s) accepts decimal digits with surrounding whitespace (signs and
\* underscores do not occur in the model's alphabet); otherwise ValueError.
IntOk(s) == Strip(s) # <<>> /\ \A j \in 1..Len(Strip(s)) : IsDigit(Strip(s)[j])

RECURSIVE DecVal(_)
DecVal(s) ==
    IF s = <<>> THEN 0
    ELSE 10 * DecVal(SubSeq(s, 1, Len(s) - 1)) + DigitVal(s[Len(s)])

ParseInt(s) == DecVal(Strip(s))

\* All sequences over S of length at most n.
SeqsUpTo(S, n) == UNION {[1..m -> S] : m \in 0..n}

-----------------------------------------------------------------------------
(* run_git_command: subprocess.run(cmd, cwd, capture_output, text, check). *)

Outcomes == {"exit_zero", "exit_nonzero", "tool_missing", "cwd_missing"}

\* text=True decodes the captured bytes as UTF-8 ...
Decodable(bytes) == \A j \in 1..Len(bytes) : bytes[j] # BadByte

\* ... and translates "\r\n" and then "\r" to "\n" (universal newlines).
TranslateNewlines(s) ==
    LET tagged == [j \in 1..Len(s) |->
                     IF s[j] = CR /\ j < Len(s) /\ s[j + 1] = LF THEN "drop"
                     ELSE IF s[j] = CR THEN LF ELSE s[j]]
    IN  SelectSeq(tagged, LAMBDA c : c # "drop")

\* The exception subprocess.run raises, "none" when it returns.
SubprocessRaises(oc, bytes) ==
    IF oc \in {"tool_missing", "cwd_missing"} THEN "FileNotFoundError"
    ELSE IF ~Decodable(bytes) THEN "UnicodeDecodeError"
    ELSE IF oc = "exit_nonzero" THEN "CalledProcessError"
    ELSE "none"

\* Only CalledProcessError is caught; the result is [exc, val].
run_git_command(oc, bytes) ==
    LET raised == SubprocessRaises(oc, bytes)
    IN  IF raised = "none"
        THEN [exc |-> "none", val |-> Strip(TranslateNewlines(bytes))]
        ELSE IF raised = "CalledProcessError"
        THEN [exc |-> "none", val |-> <<>>]
        ELSE [exc |-> raised, val |-> <<>>]

-----------------------------------------------------------------------------
(* Idle values of the variables a specification does not use. *)

RunIdle   == outcome = "exit_zero" /\ stdout = <<>> /\ ret = <<>>
LogIdle   == fn = "none" /\ exists = TRUE /\ loglines = <<>> /\ k = 0
             /\ commits = <<>> /\ shown = <<>>
BlameIdle == doc = <<>> /\ groups = <<>> /\ hostTz = 0 /\ lines = <<>> /\ i = 0
             /\ current_line = 1 /\ blame_info = <<>> /\ sha = <<>>
             /\ original_line = 0 /\ author = <<>> /\ email = <<>>
             /\ date = <<>> /\ content = <<>>
GenIdle   == project_paths = <<>> /\ faults = <<>> /\ projects_data = <<>>
             /\ snapshot = "unwritten"
AssetIdle == image_refs = <<>> /\ todo = {} /\ copied = {}

-----------------------------------------------------------------------------
(* get_blame_history: the blame stream and its parser. *)

KeyAuthor == <<"a", "u", "t", "h", "o", "r", " ">>
KeyMail   == <<"a", "u", "t", "h", "o", "r", "-", "m", "a", "i", "l", " ">>
KeyTime   == <<"a", "u", "t", "h", "o", "r", "-", "t", "i", "m", "e", " ">>

\* Days since 1970-01-01 to <<year, month, day>> (proleptic Gregorian), as
\* datetime does it.
CivilFromDays(z0) ==
    LET z   == z0 + 719468
        era == z \div 146097
        doe == z - era * 146097
        yoe == (doe - doe \div 1460 + doe \div 36524 - doe \div 146096) \div 365
        doy == doe - (365 * yoe + yoe \div 4 - yoe \div 100)
        mp  == (5 * doy + 2) \div 153
        d   == doy - (153 * mp + 2) \div 5 + 1
        m   == IF mp < 10 THEN mp + 3 ELSE mp - 9
        y   == yoe + era * 400 + (IF m <= 2 THEN 1 ELSE 0)
    IN  <<y, m, d>>

Pad2(n) == <<Digits[((n \div 10) % 10) + 1], Digits[(n % 10) + 1]>>
Pad4(n) == Pad2(n \div 100) \o Pad2(n % 100)

\* datetime.isoformat() of the naive datetime whose wall clock reads `secs`
\* seconds after 1970-01-01T00:00:00.
IsoFormat(secs) ==
    LET ymd == CivilFromDays(secs \div 86400)
        sod == secs % 86400
    IN  Pad4(ymd[1]) \o <<"-">> \o Pad2(ymd[2]) \o <<"-">> \o Pad2(ymd[3])
        \o <<"T">> \o Pad2(sod \div 3600) \o <<":">> \o Pad2((sod % 3600) \div 60)
        \o <<":">> \o Pad2(sod % 60)

\* datetime.fromtimestamp(timestamp): no tz argument, so the host's local time.
FromTimestamp(timestamp) == timestamp + hostTz

\* line 156
RenderDate(timestamp) == IsoFormat(FromTimestamp(timestamp)) \o <<"Z">>

\* A parser that keeps the author of the group before.
StaleAuthor == author

\* The locals a header line resets (lines 143-146).
FreshAuthor  == <<>>
FreshEmail   == <<>>
FreshDate    == <<>>
FreshContent == <<>>

\* What `git blame --line-porcelain` prints for line n of the document, whose
\* text is c and whose commit is p: the header, the metadata, the content.
BlameGroup(n, c, p) ==
    <<p.sha \o <<SP, Digits[n + 1], SP, Digits[n + 1], SP, "1">>,
      KeyAuthor \o p.author,
      KeyMail \o <<"<">> \o p.mail \o <<">">>,
      KeyTime \o p.time,
      <<"f", "i", "l", "e", "n", "a", "m", "e", SP, "f">>,
      <<TAB>> \o c>>

RECURSIVE BlameBytes(_, _, _)
BlameBytes(d, g, n) ==
    IF n > Len(d) THEN <<>>
    ELSE LET grp == BlameGroup(n, d[n], g[n])
         IN  Join(grp, LF) \o <<LF>> \o BlameBytes(d, g, n + 1)

BlameOutput(d, g) == BlameBytes(d, g, 1)

BlameRecord ==
    [lineStart |-> current_line, lineEnd |-> current_line, commit |-> sha,
     author |-> author, email |-> email, date |-> date,
     content |-> IF i < Len(lines) /\ StartsWith(lines[i + 1], <<TAB>>)
                 THEN Drop(lines[i + 1], 1) ELSE content,
     originalLineStart |-> original_line]

\* lines 108-126
BlameCall ==
    /\ pc = "call" /\ fn = "blame"
    /\ LET r == run_git_command(outcome, stdout)
       IN  IF ~exists THEN
               /\ pc' = "done"
               /\ UNCHANGED <<exc, ret, lines>>
           ELSE
               /\ exc' = r.exc
               /\ ret' = r.val
               /\ pc' = IF r.exc # "none" THEN "raised"
                        ELSE IF r.val = <<>> THEN "done" ELSE "header"
               /\ lines' = IF r.exc = "none" /\ r.val # <<>>
                           THEN Split(r.val, LF) ELSE lines
    /\ UNCHANGED <<outcome, stdout, logVars, genVars, assetVars, doc, groups,
                   hostTz, i, current_line, blame_info, sha, original_line,
                   author, email, date, content>>

BlameFrame ==
    UNCHANGED <<runVars, logVars, genVars, assetVars, doc, groups, hostTz, lines>>

\* lines 129-131
BlameSkipEmpty ==
    /\ pc = "header" /\ i < Len(lines)
    /\ lines[i + 1] = <<>>
    /\ i' = i + 1
    /\ UNCHANGED <<pc, exc, current_line, blame_info, sha, original_line,
                   author, email, date, content>>
    /\ BlameFrame

\* lines 134-137
BlameSkipShort ==
    /\ pc = "header" /\ i < Len(lines)
    /\ lines[i + 1] # <<>>
    /\ Len(SplitWS(lines[i + 1])) < 3
    /\ i' = i + 1
    /\ UNCHANGED <<pc, exc, current_line, blame_info, sha, original_line,
                   author, email, date, content>>
    /\ BlameFrame

\* lines 134-148
BlameHeader ==
    /\ pc = "header" /\ i < Len(lines)
    /\ lines[i + 1] # <<>>
    /\ LET parts == SplitWS(lines[i + 1])
       IN  /\ Len(parts) >= 3
           /\ IF IntOk(parts[2]) THEN
                  /\ sha' = parts[1]
                  /\ original_line' = ParseInt(parts[2])
                  /\ author' = FreshAuthor
                  /\ email' = FreshEmail
                  /\ date' = FreshDate
                  /\ content' = FreshContent
                  /\ i' = i + 1
                  /\ pc' = "meta"
                  /\ UNCHANGED exc
              ELSE
                  /\ sha' = parts[1]
                  /\ pc' = "raised"
                  /\ exc' = "ValueError"
                  /\ UNCHANGED <<original_line, author, email, date, content, i>>
    /\ UNCHANGED <<current_line, blame_info>>
    /\ BlameFrame

\* lines 149-157
BlameMeta ==
    /\ pc = "meta" /\ i < Len(lines)
    /\ ~StartsWith(lines[i + 1], <<TAB>>)
    /\ LET l == lines[i + 1]
       IN  IF StartsWith(l, KeyAuthor) THEN
               /\ author' = Drop(l, 7)
               /\ i' = i + 1
               /\ UNCHANGED <<email, date, pc, exc>>
           ELSE IF StartsWith(l, KeyMail) THEN
               /\ email' = StripSet(Drop(l, 12), {"<", ">"})
               /\ i' = i + 1
               /\ UNCHANGED <<author, date, pc, exc>>
           ELSE IF StartsWith(l, KeyTime) THEN
               IF IntOk(Drop(l, 12)) THEN
                   /\ date' = RenderDate(ParseInt(Drop(l, 12)))
                   /\ i' = i + 1
                   /\ UNCHANGED <<author, email, pc, exc>>
               ELSE
                   /\ pc' = "raised"
                   /\ exc' = "ValueError"
                   /\ UNCHANGED <<author, email, date, i>>
           ELSE
               /\ i' = i + 1
               /\ UNCHANGED <<author, email, date, pc, exc>>
    /\ UNCHANGED <<current_line, blame_info, sha, original_line, content>>
    /\ BlameFrame

\* lines 159-175
BlameEmit ==
    /\ pc = "meta"
    /\ IF i < Len(lines) THEN StartsWith(lines[i + 1], <<TAB>>) ELSE TRUE
    /\ content' = BlameRecord.content
    /\ i' = IF i < Len(lines) THEN i + 1 ELSE i
    /\ blame_info' = Append(blame_info, BlameRecord)
    /\ current_line' = current_line + 1
    /\ pc' = "header"
    /\ UNCHANGED <<exc, sha, original_line, author, email, date>>
    /\ BlameFrame

\* lines 128, 177
BlameReturn ==
    /\ pc = "header" /\ i >= Len(lines)
    /\ pc' = "done"
    /\ UNCHANGED <<exc, i, current_line, blame_info, sha, original_line,
                   author, email, date, content>>
    /\ BlameFrame

\* The commits of the blamed lines.
Profiles ==
    {[sha |-> <<"c">>, author |-> <<"A">>, mail |-> <<"e">>, time |-> <<"0">>],
     [sha |-> <<"d">>, author |-> <<"B">>, mail |-> <<"f">>,
      time |-> <<"8", "6", "3", "9", "9">>]}

\* The texts a line of the document may hold: empty, plain, with trailing or
\* leading whitespace, and with a carriage return inside the line.
DocLinePool ==
    {<<>>, <<"a">>, <<"a", SP>>, <<SP, "a">>,
     <<"x", CR, "0", SP, "1", SP, "2">>}

\* The lines an arbitrary stream is made of.
StreamLinePool ==
    {<<>>, <<"x">>, <<"c", SP, "1", SP, "1">>, <<"d", SP, "q", SP, "1">>,
     KeyAuthor \o <<"A">>, KeyMail \o <<"<", "e", ">">>, KeyTime \o <<"7">>,
     <<TAB, "t">>}

HostOffsets == {0, 3600, 0 - 18000}

BlameLocalsInit ==
    /\ lines = <<>> /\ i = 0 /\ current_line = 1 /\ blame_info = <<>>
    /\ sha = <<>> /\ original_line = 0 /\ author = <<>> /\ email = <<>>
    /\ date = <<>> /\ content = <<>>

\* A document of 1..MaxDocLines lines under git, blamed on some host.
InitBlameDoc ==
    /\ doc \in SeqsUpTo(DocLinePool, MaxDocLines) \ {<<>>}
    /\ groups \in SeqsUpTo(Profiles, MaxDocLines)
    /\ Len(groups) = Len(doc)
    /\ hostTz \in HostOffsets
    /\ exists \in BOOLEAN
    /\ outcome \in {"exit_zero", "exit_nonzero", "tool_missing"}
    /\ stdout = BlameOutput(doc, groups)

\* An arbitrary stream handed to the parser.
InitBlameStream ==
    /\ doc = <<>> /\ groups = <<>>
    /\ hostTz = 0
    /\ exists = TRUE
    /\ outcome = "exit_zero"
    /\ \E st \in SeqsUpTo(StreamLinePool, MaxStream) : stdout = Join(st, LF)

InitBlame ==
    /\ pc = "call" /\ exc = "none" /\ ret = <<>>
    /\ fn = "blame" /\ loglines = <<>> /\ k = 0 /\ commits = <<>> /\ shown = <<>>
    /\ BlameLocalsInit
    /\ InitBlameDoc \/ InitBlameStream
    /\ GenIdle /\ AssetIdle

NextBlame ==
    \/ BlameCall
    \/ BlameSkipEmpty
    \/ BlameSkipShort
    \/ BlameHeader
    \/ BlameMeta
    \/ BlameEmit
    \/ BlameReturn

SpecBlame == InitBlame /\ [][NextBlame]_vars

\* The run blames a document that exists, and git succeeded.
BlamedDoc == doc # <<>> /\ exists /\ outcome = "exit_zero"

\* C1: for a document of N >= 1 lines, get_blame_history returns exactly N
\* records, the n-th with lineStart = n and lineEnd = lineStart.
C1_OneRecordPerLine ==
    (BlamedDoc /\ pc \in {"done", "raised"}) =>
        /\ pc = "done"
        /\ Len(blame_info) = Len(doc)
        /\ \A n \in 1..Len(blame_info) :
              blame_info[n].lineStart = n /\ blame_info[n].lineEnd = n

\* C2: the content fields of the returned records, read in order, are the
\* document's lines exactly.
C2_ContentIsDocument ==
    (BlamedDoc /\ pc = "done") =>
        [n \in 1..Len(blame_info) |-> blame_info[n].content] = doc

\* C7: the date made from an author-time line of value t is the ISO-8601
\* rendering of the instant t in UTC followed by Z, whatever the host's zone.
C7_DateIsUTC ==
    (pc = "meta" /\ i >= 1 /\ StartsWith(lines[i], KeyTime)
        /\ IntOk(Drop(lines[i], 12))) =>
        date = IsoFormat(ParseInt(Drop(lines[i], 12))) \o <<"Z">>

\* C8: a line in header position with fewer than 3 tokens emits no record and
\* leaves the counter alone, and the parser never raises on a stream: it goes
\* on to the end and returns.
C8_SkipsUnparseable ==
    [][/\ (pc = "header" /\ i < Len(lines) /\ Len(SplitWS(lines[i + 1])) < 3)
           => (blame_info' = blame_info /\ current_line' = current_line)
       /\ exc' # "ValueError"]_vars

\* The groups of a stream: <<h, e>> with h the index of a header line and e
\* the index of its content line (Len + 1 when the stream ends first).
NextTab(ls, h) ==
    IF \E j \in (h + 1)..Len(ls) : StartsWith(ls[j], <<TAB>>)
    THEN CHOOSE j \in (h + 1)..Len(ls) :
            /\ StartsWith(ls[j], <<TAB>>)
            /\ \A m \in (h + 1)..(j - 1) : ~StartsWith(ls[m], <<TAB>>)
    ELSE Len(ls) + 1

RECURSIVE GroupBounds(_, _)
GroupBounds(ls, p) ==
    IF p > Len(ls) THEN <<>>
    ELSE IF Len(SplitWS(ls[p])) < 3 THEN GroupBounds(ls, p + 1)
    ELSE <<<<p, NextTab(ls, p)>>>> \o GroupBounds(ls, NextTab(ls, p) + 1)

\* The payload of the last line of group g that starts with key, or empty.
OwnField(ls, g, key) ==
    LET M == {j \in (g[1] + 1)..(g[2] - 1) : StartsWith(ls[j], key)}
    IN  IF M = {} THEN <<>>
        ELSE Drop(ls[CHOOSE j \in M : \A m \in M : m <= j], Len(key))

\* C9: the author, email, date and content of each emitted record come only
\* from the lines of the record's own group; a field whose line the group
\* lacks is empty, whatever the groups before it held.
C9_OwnGroupOnly ==
    \A n \in 1..Len(blame_info) :
        LET g == GroupBounds(lines, 1)[n]
            t == OwnField(lines, g, KeyTime)
        IN  /\ blame_info[n].author = OwnField(lines, g, KeyAuthor)
            /\ blame_info[n].email =
                  StripSet(OwnField(lines, g, KeyMail), {"<", ">"})
            /\ blame_info[n].date =
                  (IF t = <<>> THEN <<>> ELSE RenderDate(ParseInt(t)))
            /\ blame_info[n].content =
                  (IF g[2] <= Len(lines) THEN Drop(lines[g[2]], 1) ELSE <<>>)
            /\ blame_info[n].lineStart = n

\* A record without author, email and date follows one that has them.
C9_Witness ==
    \E n \in 2..Len(blame_info) :
        /\ blame_info[n - 1].author # <<>>
        /\ blame_info[n - 1].email # <<>>
        /\ blame_info[n - 1].date # <<>>
        /\ blame_info[n].author = <<>>
        /\ blame_info[n].email = <<>>
        /\ blame_info[n].date = <<>>

-----------------------------------------------------------------------------
(* The commit log parsers: get_all_commits, get_click_file_commits and the  *)
(* log loop of get_image_history, which also fetches each revision's blob.  *)

PIPE == "|"

\* A split that is not bounded by the field count.
LogPartsUnbounded(line) == Split(line, PIPE)

\* line.split('|', 4)  (lines 52, 92, 234)
LogParts(line) == SplitMax(line, PIPE, 4)

\* sha, author, email, date, message = parts
CommitOf(parts) ==
    [sha |-> parts[1], author |-> parts[2], email |-> parts[3],
     date |-> parts[4], message |-> parts[5]]

\* [f for f in files_output.split('\n') if f]  (line 61)
FilesOf(files_output) == SelectSeq(Split(files_output, LF), LAMBDA f : f # <<>>)

\* len(size_output.encode()) if size_output else 0  (line 243); every
\* character of the model's alphabet encodes to one byte.
FileSize(size_output) == IF size_output # <<>> THEN Len(size_output) ELSE 0

LogFns == {"get_all_commits", "get_click_file_commits", "get_image_history"}

\* What `git diff-tree --name-only` may answer for a commit.
DiffTreeReplies ==
    {[oc |-> "exit_zero", bytes |-> <<"f", LF>>],
     [oc |-> "exit_zero", bytes |-> <<"f", LF, "g", LF>>],
     [oc |-> "exit_nonzero", bytes |-> <<>>]}

\* What `git show <sha>:<path>` may answer: a text blob, a text blob that
\* ends with a newline, a blob that is not UTF-8 text, or no blob at all.
ShowReplies ==
    {[oc |-> "exit_zero", bytes |-> <<"a", "b">>],
     [oc |-> "exit_zero", bytes |-> <<"a", LF>>],
     [oc |-> "exit_zero", bytes |-> <<BadByte, "a">>],
     [oc |-> "exit_nonzero", bytes |-> <<>>]}

LogFrame ==
    UNCHANGED <<runVars, blameVars, genVars, assetVars, fn, exists, loglines>>

\* lines 37-47, 77-87, 214-229
LogCall ==
    /\ pc = "call" /\ fn \in LogFns
    /\ LET r == run_git_command(outcome, stdout)
       IN  IF fn = "get_image_history" /\ ~exists THEN
               /\ pc' = "done"
               /\ UNCHANGED <<exc, ret, loglines>>
           ELSE
               /\ exc' = r.exc
               /\ ret' = r.val
               /\ pc' = IF r.exc # "none" THEN "raised"
                        ELSE IF r.val = <<>> THEN "done" ELSE "loop"
               /\ loglines' = IF r.exc = "none" /\ r.val # <<>>
                              THEN Split(r.val, LF) ELSE loglines
    /\ UNCHANGED <<outcome, stdout, blameVars, genVars, assetVars, fn, exists,
                   k, commits, shown>>

\* lines 50-51, 90-91, 232-233
LogSkipEmpty ==
    /\ pc = "loop" /\ k < Len(loglines)
    /\ loglines[k + 1] = <<>>
    /\ k' = k + 1
    /\ UNCHANGED <<pc, exc, commits, shown>>
    /\ LogFrame

\* lines 52-53, 92-93, 234-235: len(parts) != 5
LogSkipMalformed ==
    /\ pc = "loop" /\ k < Len(loglines)
    /\ loglines[k + 1] # <<>>
    /\ Len(LogParts(loglines[k + 1])) # 5
    /\ k' = k + 1
    /\ UNCHANGED <<pc, exc, commits, shown>>
    /\ LogFrame

\* lines 92-101
AppendClickCommit ==
    /\ pc = "loop" /\ k < Len(loglines) /\ fn = "get_click_file_commits"
    /\ loglines[k + 1] # <<>>
    /\ Len(LogParts(loglines[k + 1])) = 5
    /\ commits' = Append(commits, CommitOf(LogParts(loglines[k + 1])))
    /\ k' = k + 1
    /\ UNCHANGED <<pc, exc, shown>>
    /\ LogFrame

\* lines 52-70
AppendCommitWithFiles ==
    /\ pc = "loop" /\ k < Len(loglines) /\ fn = "get_all_commits"
    /\ loglines[k + 1] # <<>>
    /\ Len(LogParts(loglines[k + 1])) = 5
    /\ \E reply \in DiffTreeReplies :
          LET r == run_git_command(reply.oc, reply.bytes)
              c == CommitOf(LogParts(loglines[k + 1]))
          IN  IF r.exc # "none" THEN
                  /\ pc' = "raised"
                  /\ exc' = r.exc
                  /\ UNCHANGED <<commits, shown, k>>
              ELSE
                  /\ commits' = Append(commits,
                        [sha |-> c.sha, author |-> c.author, email |-> c.email,
                         date |-> c.date, message |-> c.message,
                         files |-> FilesOf(r.val)])
                  /\ shown' = Append(shown, reply)
                  /\ k' = k + 1
                  /\ UNCHANGED <<pc, exc>>
    /\ LogFrame

\* lines 234-252
AppendImageVersion ==
    /\ pc = "loop" /\ k < Len(loglines) /\ fn = "get_image_history"
    /\ loglines[k + 1] # <<>>
    /\ Len(LogParts(loglines[k + 1])) = 5
    /\ \E reply \in ShowReplies :
          LET r == run_git_command(reply.oc, reply.bytes)
              c == CommitOf(LogParts(loglines[k + 1]))
          IN  IF r.exc # "none" THEN
                  /\ pc' = "raised"
                  /\ exc' = r.exc
                  /\ UNCHANGED <<commits, shown, k>>
              ELSE
                  /\ commits' = Append(commits,
                        [sha |-> c.sha, author |-> c.author, email |-> c.email,
                         date |-> c.date, message |-> c.message,
                         size |-> FileSize(r.val)])
                  /\ shown' = Append(shown, reply)
                  /\ k' = k + 1
                  /\ UNCHANGED <<pc, exc>>
    /\ LogFrame

\* lines 72, 103, 254
LogReturn ==
    /\ pc = "loop" /\ k >= Len(loglines)
    /\ pc' = "done"
    /\ UNCHANGED <<exc, k, commits, shown>>
    /\ LogFrame

\* The lines a log stream is made of: a plain record, a record whose message
\* holds the delimiter, a record of four fields, and an empty line.
LogLinePool ==
    {<<"s", PIPE, "a", PIPE, "e", PIPE, "d", PIPE, "m">>,
     <<"t", PIPE, "a", PIPE, "e", PIPE, "d", PIPE, "m", PIPE, "n">>,
     <<"s", PIPE, "a", PIPE, "e", PIPE, "d">>,
     <<>>}

InitLog ==
    /\ pc = "call" /\ exc = "none" /\ ret = <<>>
    /\ fn \in LogFns
    /\ exists \in (IF fn = "get_image_history" THEN BOOLEAN ELSE {TRUE})
    /\ outcome \in {"exit_zero", "exit_nonzero"}
    /\ \E st \in SeqsUpTo(LogLinePool, MaxLogLines) : stdout = Join(st, LF)
    /\ loglines = <<>> /\ k = 0 /\ commits = <<>> /\ shown = <<>>
    /\ BlameIdle /\ GenIdle /\ AssetIdle

NextLog ==
    \/ LogCall
    \/ LogSkipEmpty
    \/ LogSkipMalformed
    \/ AppendClickCommit
    \/ AppendCommitWithFiles
    \/ AppendImageVersion
    \/ LogReturn

SpecLog == InitLog /\ [][NextLog]_vars

\* The positions of the delimiter in a line, and the n-th of them.
DelimPos(l) == {j \in 1..Len(l) : l[j] = PIPE}

NthDelim(l, n) ==
    CHOOSE p \in DelimPos(l) : Cardinality({q \in DelimPos(l) : q < p}) = n - 1

HasFourDelims(l) == Cardinality(DelimPos(l)) >= 4

\* The five fields of a line of at least four delimiters: cut at the first
\* four, the message being all that follows the fourth.
FieldsOf(l) ==
    [sha     |-> SubSeq(l, 1, NthDelim(l, 1) - 1),
     author  |-> SubSeq(l, NthDelim(l, 1) + 1, NthDelim(l, 2) - 1),
     email   |-> SubSeq(l, NthDelim(l, 2) + 1, NthDelim(l, 3) - 1),
     date    |-> SubSeq(l, NthDelim(l, 3) + 1, NthDelim(l, 4) - 1),
     message |-> SubSeq(l, NthDelim(l, 4) + 1, Len(l))]

ExpectedCommits(ls) ==
    LET good == SelectSeq(ls, HasFourDelims)
    IN  [n \in 1..Len(good) |-> FieldsOf(good[n])]

FiveFields(c) ==
    [sha |-> c.sha, author |-> c.author, email |-> c.email, date |-> c.date,
     message |-> c.message]

C6_SizeIsBlobLength ==
    (fn = "get_image_history" /\ pc \in {"done", "raised"}) =>
        /\ pc = "done"
        /\ ~exists => commits = <<>>
        /\ exists =>
              /\ [n \in 1..Len(commits) |-> FiveFields(commits[n])]
                    = ExpectedCommits(loglines)
              /\ \A n \in 1..Len(commits) :
                    commits[n].size = IF shown[n].oc = "exit_zero"
                                      THEN Len(shown[n].bytes) ELSE 0

-----------------------------------------------------------------------------
(* generate_temporal_data: the loop over the discovered projects and the    *)
(* write of the snapshot.  A project's environment says how its git         *)
(* invocations end, what its blame stream and image blobs hold, and whether *)
(* the copy of its image succeeds.                                          *)

\* A path is a sequence of components, a component a sequence of characters.
ProjectsDir == <<"p", "r", "o", "j", "e", "c", "t", "s">>
ExternalDir == <<"e", "x", "t", "e", "r", "n", "a", "l", "-",
                 "p", "r", "o", "j", "e", "c", "t", "s">>
Dot    == <<".">>
DotDot == <<".", ".">>

\* os.path.basename, os.path.dirname
Basename(path) == IF path = <<>> THEN <<>> ELSE path[Len(path)]
Dirname(path)  == IF path = <<>> THEN <<>> ELSE SubSeq(path, 1, Len(path) - 1)

ProjectPool ==
    {<<ProjectsDir, <<"a">>>>,
     <<ProjectsDir, <<"x">>, <<"a">>>>,
     <<ExternalDir, <<"a">>>>,
     <<ProjectsDir, <<"a", "_", "b">>>>}

\* Sequences of distinct project paths, as find_projects returns them.
ProjectLists(n) ==
    {ps \in SeqsUpTo(ProjectPool, n) :
        \A a, b \in 1..Len(ps) : a # b => ps[a] # ps[b]}

ProjectEnvs ==
    {[git |-> "exit_zero",    head |-> <<"1">>, blob |-> <<"a">>, copy |-> TRUE],
     [git |-> "exit_nonzero", head |-> <<"1">>, blob |-> <<"a">>, copy |-> TRUE],
     [git |-> "tool_missing", head |-> <<"1">>, blob |-> <<"a">>, copy |-> TRUE],
     [git |-> "exit_zero",    head |-> <<"q">>, blob |-> <<"a">>, copy |-> TRUE],
     [git |-> "exit_zero",    head |-> <<"1">>, blob |-> <<BadByte>>, copy |-> TRUE],
     [git |-> "exit_zero",    head |-> <<"1">>, blob |-> <<"a">>, copy |-> FALSE]}

\* get_all_commits / get_click_file_commits (lines 401-405): the exception
\* of run_git_command, else whether any commit came back.
StageCommits(env) ==
    LET r == run_git_command(env.git, <<"s", PIPE, "a", PIPE, "e", PIPE, "d", PIPE, "m">>)
    IN  [exc |-> r.exc, val |-> IF r.val = <<>> THEN "empty" ELSE "commits"]

\* get_blame_history (line 409): int() of the header's second token.
StageBlame(env) ==
    LET r == run_git_command(env.git, <<"c", SP>> \o env.head \o <<SP, "1">>)
    IN  IF r.exc # "none" THEN [exc |-> r.exc, val |-> "empty"]
        ELSE IF r.val = <<>> THEN [exc |-> "none", val |-> "empty"]
        ELSE IF ~IntOk(SplitWS(r.val)[2]) THEN [exc |-> "ValueError", val |-> "empty"]
        ELSE [exc |-> "none", val |-> "lines"]

\* copy_images_to_assets (line 417): get_image_history's `git show`, then
\* shutil.copy2 inside try/except Exception.
StageImages(env) ==
    LET r == run_git_command(env.git, env.blob)
    IN  IF r.exc # "none" THEN [exc |-> r.exc, val |-> "empty"]
        ELSE [exc |-> "none", val |-> IF env.copy THEN "copied" ELSE "empty"]

\* The first exception among the stages, in the order the loop body runs them.
ProjectRaises(env) ==
    IF StageCommits(env).exc # "none" THEN StageCommits(env).exc
    ELSE IF StageBlame(env).exc # "none" THEN StageBlame(env).exc
    ELSE StageImages(env).exc

\* lines 419-430
ProjectData(path, env) ==
    [name |-> Basename(path), path |-> path,
     commits |-> StageCommits(env).val,
     clickFile |-> [commits |-> StageCommits(env).val,
                    blameHistory |-> StageBlame(env).val,
                    images |-> StageImages(env).val]]

GenFrame == UNCHANGED <<runVars, logVars, blameVars, assetVars, project_paths, faults>>

\* lines 366-379
GenStart ==
    /\ pc = "call" /\ fn = "generate"
    /\ pc' = "projects"
    /\ UNCHANGED <<exc, projects_data, snapshot>>
    /\ GenFrame

\* lines 381-432: one iteration; nothing in the body catches.
ProcessProject ==
    /\ pc = "projects" /\ Len(projects_data) < Len(project_paths)
    /\ LET n == Len(projects_data) + 1
       IN  IF ProjectRaises(faults[n]) # "none" THEN
               /\ pc' = "raised"
               /\ exc' = ProjectRaises(faults[n])
               /\ UNCHANGED projects_data
           ELSE
               /\ projects_data' =
                     Append(projects_data, ProjectData(project_paths[n], faults[n]))
               /\ UNCHANGED <<pc, exc>>
    /\ UNCHANGED snapshot
    /\ GenFrame

\* lines 434-451
WriteSnapshot ==
    /\ pc = "projects" /\ Len(projects_data) = Len(project_paths)
    /\ snapshot' = projects_data
    /\ pc' = "done"
    /\ UNCHANGED <<exc, projects_data>>
    /\ GenFrame

InitGen ==
    /\ pc = "call" /\ exc = "none"
    /\ RunIdle /\ BlameIdle /\ AssetIdle
    /\ fn = "generate" /\ exists = TRUE /\ loglines = <<>> /\ k = 0
    /\ commits = <<>> /\ shown = <<>>
    /\ project_paths \in ProjectLists(MaxProjects)
    /\ faults \in SeqsUpTo(ProjectEnvs, MaxProjects)
    /\ Len(faults) = Len(project_paths)
    /\ projects_data = <<>>
    /\ snapshot = "unwritten"

NextGen ==
    \/ GenStart
    \/ ProcessProject
    \/ WriteSnapshot

SpecGen == InitGen /\ [][NextGen]_vars

\* C4: whatever fails inside one project's extraction, the projects after it
\* are processed: the run ends with a written snapshot that holds one record
\* per discovered project, in discovery order.
C4_EveryProjectInSnapshot ==
    pc \in {"done", "raised"} =>
        /\ snapshot # "unwritten"
        /\ Len(snapshot) = Len(project_paths)
        /\ \A n \in 1..Len(project_paths) : snapshot[n].path = project_paths[n]

-----------------------------------------------------------------------------
(* copy_images_to_assets, over the projects of one run. *)

\* assets_dir = dirname(output_file)/assets  (lines 376-377)
AssetsDir == <<<<"d", "i", "s", "t">>, <<"a", "s", "s", "e", "t", "s">>>>

\* The place a path names once "." and ".." are resolved (os.path.normpath).
RECURSIVE Normalize(_, _)
Normalize(acc, path) ==
    IF path = <<>> THEN acc
    ELSE IF Head(path) = Dot THEN Normalize(acc, Tail(path))
    ELSE IF Head(path) = DotDot /\ acc # <<>> /\ acc[Len(acc)] # DotDot
         THEN Normalize(SubSeq(acc, 1, Len(acc) - 1), Tail(path))
    ELSE Normalize(Append(acc, Head(path)), Tail(path))

\* lines 278-291: dest_path for a reference of a project.
DestPath(project_path, image_ref) ==
    LET project_name == Basename(project_path)
        filename     == Basename(image_ref)
        rel_dir      == Dirname(image_ref)
    IN  IF rel_dir # <<>> /\ rel_dir # <<Dot>>
        THEN AssetsDir \o <<project_name>> \o rel_dir \o <<filename>>
        ELSE AssetsDir \o <<project_name \o <<"_">> \o filename>>

\* lines 294-300: the path whose history is read, relative to the git root
\* of the project (its own for an external project).
ImageGitPath(project_path, image_ref) ==
    IF project_path[1] = ExternalDir THEN image_ref
    ELSE project_path \o image_ref

\* The references a document may hold: i, s/i, ../../i and b_i.
RefPool ==
    {<<<<"i">>>>,
     <<<<"s">>, <<"i">>>>,
     <<DotDot, DotDot, <<"i">>>>,
     <<<<"b", "_", "i">>>>}

AssetFrame ==
    UNCHANGED <<runVars, logVars, blameVars, genVars, image_refs>>

\* The project being processed: the first with references left to visit.
CurrentProject == CHOOSE n \in {t[1] : t \in todo} : \A t \in todo : n <= t[1]

\* lines 269-319: the source is a file, its history is read, the copy is made.
CopyImage ==
    /\ pc = "copying" /\ todo # {}
    /\ \E t \in todo :
          /\ t[1] = CurrentProject
          /\ todo' = todo \ {t}
          /\ copied' = copied \cup
                {[project |-> project_paths[t[1]], source |-> t[2],
                  gitPath |-> ImageGitPath(project_paths[t[1]], t[2]),
                  fullPath |-> Normalize(<<>>, DestPath(project_paths[t[1]], t[2]))]}
    /\ UNCHANGED <<pc, exc>>
    /\ AssetFrame

\* lines 276, 320-323: the source is missing, or shutil.copy2 fails.
SkipImage ==
    /\ pc = "copying" /\ todo # {}
    /\ \E t \in todo :
          /\ t[1] = CurrentProject
          /\ todo' = todo \ {t}
    /\ UNCHANGED <<pc, exc, copied>>
    /\ AssetFrame

\* line 303: get_image_history raises (a blob that is not text).
HistoryRaises ==
    /\ pc = "copying" /\ todo # {}
    /\ pc' = "raised"
    /\ exc' = "UnicodeDecodeError"
    /\ UNCHANGED <<todo, copied>>
    /\ AssetFrame

\* line 325 of the last project
AssetsDone ==
    /\ pc = "copying" /\ todo = {}
    /\ pc' = "done"
    /\ UNCHANGED <<exc, todo, copied>>
    /\ AssetFrame

InitAssets ==
    /\ pc = "copying" /\ exc = "none"
    /\ RunIdle /\ BlameIdle
    /\ fn = "copy" /\ exists = TRUE /\ loglines = <<>> /\ k = 0
    /\ commits = <<>> /\ shown = <<>>
    /\ project_paths \in ProjectLists(MaxAssetProjects) \ {<<>>}
    /\ faults = <<>> /\ projects_data = <<>> /\ snapshot = "unwritten"
    /\ image_refs \in SeqsUpTo({R \in SUBSET RefPool : Cardinality(R) \in 1..MaxRefs},
                               MaxAssetProjects)
    /\ Len(image_refs) = Len(project_paths)
    /\ todo = UNION {{<<n, r>> : r \in image_refs[n]} : n \in 1..Len(image_refs)}
    /\ copied = {}

NextAssets ==
    \/ CopyImage
    \/ SkipImage
    \/ HistoryRaises
    \/ AssetsDone

SpecAssets == InitAssets /\ [][NextAssets]_vars

UnderAssetsDir(path) ==
    Len(path) > Len(AssetsDir) /\ SubSeq(path, 1, Len(AssetsDir)) = AssetsDir

\* C10: every copy lands under the assets root, and two different (project
\* path, reference) pairs that are both copied never get the same destination.
C10_NoDestinationShared ==
    /\ \A c \in copied : UnderAssetsDir(c.fullPath)
    /\ \A c1, c2 \in copied :
          c1.fullPath = c2.fullPath =>
              (c1.project = c2.project /\ c1.source = c2.source)

-----------------------------------------------------------------------------
(* The command runner on its own. *)

OutBytes == {"a", SP, LF, CR, BadByte}

InitRun ==
    /\ pc = "call" /\ exc = "none"
    /\ outcome \in Outcomes
    /\ stdout \in SeqsUpTo(OutBytes, MaxOut)
    /\ ret = <<>>
    /\ LogIdle /\ BlameIdle /\ GenIdle /\ AssetIdle

RunGitCommand ==
    /\ pc = "call"
    /\ LET r == run_git_command(outcome, stdout)
       IN  /\ exc' = r.exc
           /\ ret' = r.val
           /\ pc' = IF r.exc = "none" THEN "returned" ELSE "raised"
    /\ UNCHANGED <<outcome, stdout, logVars, blameVars, genVars, assetVars>>

NextRun == RunGitCommand

SpecRun == InitRun /\ [][NextRun]_vars

\* C3: run_git_command never propagates an exception: whatever the outcome
\* of the external invocation it returns a string, and the string is empty
\* whenever the invocation did not succeed.
C3_NeverRaises ==
    pc # "call" =>
        /\ pc = "returned" /\ exc = "none"
        /\ (outcome # "exit_zero" \/ ~Decodable(stdout)) => ret = <<>>

====
